---- MODULE Spec2Model ----
(***************************************************************************)
(* Model of now-sc's prompt commands: the interactive `prompt` command     *)
(* (runPrompt), the `prompt run <name>` command (runPromptRun), the        *)
(* template store / file discovery / context formatter helpers they call,  *)
(* and the local-process client (claude.Client).                           *)
(*                                                                         *)
(* A text (a Go string) is a sequence of atoms.  An atom is a TLA+ string  *)
(* standing for an indivisible run of bytes: a single character where the  *)
(* code looks inside the text (names, whitespace, path separators), a      *)
(* whole literal where it only concatenates it.                            *)
(* A path, once cleaned, is a sequence of segments, each segment a text.   *)
(***************************************************************************)
EXTENDS Integers, Sequences, FiniteSets, TLC

\* ------------------------------------------------------------------ bounds

\* How many context files the --file flag may name.
MaxFiles == 2

\* How many times the filename prompt may refuse an invalid entry in a run.
MaxRejects == 1

\* ------------------------------------------------------------------- texts

Empty == <<>>

IsSpace(a) == a \in {" ", "\n", "\t", "\r"}

SetMin(S) == CHOOSE x \in S : \A y \in S : x <= y

SetMax(S) == CHOOSE x \in S : \A y \in S : x >= y

\* strings.TrimSpace: drop leading and trailing white space.
TrimSpace(s) ==
    LET keep == {i \in 1..Len(s) : ~IsSpace(s[i])}
    IN  IF keep = {} THEN Empty ELSE SubSeq(s, SetMin(keep), SetMax(keep))

\* strings.ToLower on one atom (the letters the model's names use).
LowerAtom(a) ==
    CASE a = "Sales" -> "sales"
      [] a = "SALES" -> "sales"
      [] a = "Discovery" -> "discovery"
      [] a = "Demo" -> "demo"
      [] a = "DISCOVERY" -> "discovery"
      [] a = "DEMO" -> "demo"
      [] OTHER -> a

\* strings.ToLower
ToLower(s) == [i \in 1..Len(s) |-> LowerAtom(s[i])]

\* strings.ReplaceAll(s, old, new) for one-atom old and new.
ReplaceAll(s, old, new) == [i \in 1..Len(s) |-> IF s[i] = old THEN new ELSE s[i]]

\* strings.HasSuffix(s, suffix) for a one-atom suffix.
HasSuffix(s, suffix) == Len(s) > 0 /\ s[Len(s)] = suffix

\* strings.TrimSuffix(s, suffix) for a one-atom suffix.
TrimSuffix(s, suffix) == IF HasSuffix(s, suffix) THEN SubSeq(s, 1, Len(s) - 1) ELSE s

\* strings.Contains(s, sub)
Contains(s, sub) ==
    \E i \in 0..(Len(s) - Len(sub)) : SubSeq(s, i + 1, i + Len(sub)) = sub

\* ------------------------------------------------------------------- paths

\* The segments of a path text, split at the "/" atoms.
RECURSIVE SplitPath(_)
SplitPath(t) ==
    IF \A i \in 1..Len(t) : t[i] # "/"
    THEN <<t>>
    ELSE LET k == SetMin({i \in 1..Len(t) : t[i] = "/"})
         IN  <<SubSeq(t, 1, k - 1)>> \o SplitPath(SubSeq(t, k + 1, Len(t)))

\* One step of filepath.Clean on a relative path: "" and "." vanish, ".." pops.
CleanStep(acc, seg) ==
    IF seg = Empty \/ seg = <<".">>
    THEN acc
    ELSE IF seg = <<"..">> /\ Len(acc) > 0 /\ acc[Len(acc)] # <<"..">>
         THEN SubSeq(acc, 1, Len(acc) - 1)
         ELSE Append(acc, seg)

RECURSIVE CleanFrom(_, _)
CleanFrom(acc, segs) ==
    IF segs = <<>> THEN acc ELSE CleanFrom(CleanStep(acc, Head(segs)), Tail(segs))

\* filepath.Clean of a relative path; the empty path cleans to ".".
Clean(segs) ==
    LET c == CleanFrom(<<>>, segs) IN IF c = <<>> THEN <<(<<".">>)>> ELSE c

RECURSIVE SplitAll(_)
SplitAll(elems) ==
    IF elems = <<>> THEN <<>> ELSE SplitPath(Head(elems)) \o SplitAll(Tail(elems))

\* filepath.Join(elems...): join with separators, then Clean.
Join(elems) == Clean(SplitAll(elems))

\* filepath.Dir(path)
Dir(path) == IF Len(path) <= 1 THEN <<(<<".">>)>> ELSE SubSeq(path, 1, Len(path) - 1)

\* filepath.Base(path)
Base(path) == IF path = <<>> THEN <<".">> ELSE path[Len(path)]

\* ------------------------------------------------------------------ errors

\* An error value: its kind in the error taxonomy, the message of the
\* fmt.Errorf that made it, and the diagnostic text it carries.
Err(kind, msg, detail) == [kind |-> kind, msg |-> msg, detail |-> detail]

Nil == Err("nil", "", Empty)

\* The command has not returned yet.
Running == Err("running", "", Empty)

IsErr(e) == e.kind \notin {"nil", "running"}

\* fmt.Errorf("<prefix>: %w", e)
Wrap(prefix, e) == Err(e.kind, prefix, e.detail)

\* -------------------------------------------------------------- environment

\* A directory entry of the templates directory.
Entry(name, isDir) == [name |-> name, isDir |-> isDir]

SalesFile == <<"Sales", "_", "Discovery", ".md">>

DemoFile == <<"Demo", ".md">>

NotesFile == <<"notes", ".txt">>

\* The states the templates directory can be in: absent, unreadable, or a
\* listing in directory order.
Dir_(exists, readable, entries) ==
    [exists |-> exists, readable |-> readable, entries |-> entries]

TemplateDirs ==
    { Dir_(FALSE, FALSE, <<>>),
      Dir_(TRUE, FALSE, <<>>),
      Dir_(TRUE, TRUE, <<Entry(NotesFile, FALSE)>>),
      Dir_(TRUE, TRUE, <<Entry(NotesFile, FALSE), Entry(SalesFile, FALSE)>>),
      Dir_(TRUE, TRUE, <<Entry(DemoFile, FALSE), Entry(SalesFile, FALSE),
                         Entry(<<"old", ".md">>, TRUE)>>) }

\* What the user may type as <prompt-name>.
PromptNames == { <<"sales">>, <<" ", "Sales", " ", "Discovery">>, <<"nope">> }

\* The body of every template file.
TemplateBody == <<"You are a sales engineer.">>

\* The files --file may name; MissingFile cannot be read.
NotesTxt == <<"a.txt">>

MissingFile == <<"gone", "/", "b.txt">>

InboxFile == <<"00_Inbox", "/", "notes", "/", "m.txt">>

\* A file that exists and cannot be opened.
LockedFile == <<"locked.txt">>

ContextPaths == {NotesTxt, MissingFile}

Readable(path) == path \notin {MissingFile, LockedFile}

FileBody(path) == <<"body of ">> \o <<Base(SplitPath(path))[1]>>

\* The states of the inbox directory: absent, walk failure, empty, one file.
Inbox_(exists, walkOk, files) ==
    [exists |-> exists, walkOk |-> walkOk, files |-> files]

Inboxes ==
    { Inbox_(FALSE, FALSE, <<>>),
      Inbox_(TRUE, FALSE, <<>>),
      Inbox_(TRUE, TRUE, <<>>),
      Inbox_(TRUE, TRUE, <<InboxFile>>) }

\* What a pipe on standard input may hold, and what the user may type.
StdinData == {Empty, <<"piped">>}

UserTexts == {Empty, <<"ask">>}

\* What the subprocess may print on standard output and standard error.
Stdouts == {Empty, <<" ", "\n">>, <<"answer", "\n">>}

Stderrs == {<<"boom">>}

\* What the remote API may answer.
RemoteAnswers == {<<"remote answer">>}

\* time.Now().Format("2006-01-02 15:04:05")
Timestamps == {<<"2026-01-02 15:04:05">>}

\* What the user may type at the filename and custom-path prompts.
Filenames == {Empty, <<" ">>, <<"meeting">>, <<"call", "_", "notes">>}

CustomPaths == {Empty, <<"docs", "/", "out">>}

\* What --output may name ("" when the flag is absent).
OutputPaths == {Empty, <<"out", "/", "r.md">>}

\* All sequences over S of length at most n.
RECURSIVE SeqsUpTo(_, _)
SeqsUpTo(S, n) ==
    IF n = 0 THEN {<<>>}
    ELSE LET shorter == SeqsUpTo(S, n - 1)
         IN  shorter \cup {Append(q, x) : q \in shorter, x \in S}

\* ------------------------------------------------------------ template store

PromptsPath == Join(<< <<".">>, <<"10_PromptTemplates">> >>)

PromptInfo(name, fileName, path) == [Name |-> name, FileName |-> fileName, Path |-> path]

NoPrompt == PromptInfo(Empty, Empty, <<>>)

\* The loop of ListPrompts over the directory entries.
RECURSIVE ListLoop(_)
ListLoop(entries) ==
    IF entries = <<>> THEN <<>>
    ELSE LET e == Head(entries)
         IN  IF e.isDir \/ ~HasSuffix(e.name, ".md")
             THEN ListLoop(Tail(entries))
             ELSE <<PromptInfo(ReplaceAll(TrimSuffix(e.name, ".md"), "_", " "),
                               e.name,
                               PromptsPath \o <<e.name>>)>>
                  \o ListLoop(Tail(entries))

\* ListPrompts(projectRoot): [err, prompts]
ListPrompts(dir) ==
    IF ~dir.exists
    THEN [err |-> Err("NotFound", "prompt templates directory not found", Empty),
          prompts |-> <<>>]
    ELSE IF ~dir.readable
    THEN [err |-> Err("IOError", "failed to read prompts directory", Empty),
          prompts |-> <<>>]
    ELSE LET prompts == ListLoop(dir.entries)
         IN  IF Len(prompts) = 0
             THEN [err |-> Err("NotFound", "no prompt templates found", Empty),
                   prompts |-> <<>>]
             ELSE [err |-> Nil, prompts |-> prompts]

\* The first loop of FindPrompt: display name or file name equal to the term.
ExactMatches(prompts, searchTerm) ==
    {i \in 1..Len(prompts) :
        \/ ToLower(prompts[i].Name) = searchTerm
        \/ ToLower(TrimSuffix(prompts[i].FileName, ".md")) = searchTerm}

\* The second loop of FindPrompt: display name containing the term.
PartialMatches(prompts, searchTerm) ==
    {i \in 1..Len(prompts) : Contains(ToLower(prompts[i].Name), searchTerm)}

\* FindPrompt with its two loops merged into one: the first template that
\* matches either way.
FindPrompt_SingleLoop(dir, promptName) ==
    LET listed == ListPrompts(dir)
        searchTerm == ToLower(TrimSpace(promptName))
        either == ExactMatches(listed.prompts, searchTerm)
                      \cup PartialMatches(listed.prompts, searchTerm)
    IN  IF IsErr(listed.err) THEN [err |-> listed.err, prompt |-> NoPrompt]
        ELSE IF either # {} THEN [err |-> Nil, prompt |-> listed.prompts[SetMin(either)]]
        ELSE [err |-> Err("NotFound", "prompt not found", promptName), prompt |-> NoPrompt]

\* FindPrompt(projectRoot, promptName): [err, prompt]
FindPrompt(dir, promptName) ==
    LET listed == ListPrompts(dir)
        searchTerm == ToLower(TrimSpace(promptName))
        exact == ExactMatches(listed.prompts, searchTerm)
        partial == PartialMatches(listed.prompts, searchTerm)
    IN  IF IsErr(listed.err) THEN [err |-> listed.err, prompt |-> NoPrompt]
        ELSE IF exact # {} THEN [err |-> Nil, prompt |-> listed.prompts[SetMin(exact)]]
        ELSE IF partial # {} THEN [err |-> Nil, prompt |-> listed.prompts[SetMin(partial)]]
        ELSE [err |-> Err("NotFound", "prompt not found", promptName), prompt |-> NoPrompt]

\* ------------------------------------------------------------ file discovery

FileInfo(path) ==
    [Path |-> path, RelativePath |-> path, Name |-> Base(SplitPath(path))]

\* DiscoverFiles(projectRoot): [err, files]
DiscoverFiles(inbox) ==
    IF ~inbox.exists
    THEN [err |-> Err("NotFound", "inbox directory not found", Empty), files |-> <<>>]
    ELSE IF ~inbox.walkOk
    THEN [err |-> Err("IOError", "failed to scan inbox", Empty), files |-> <<>>]
    ELSE [err |-> Nil, files |-> [i \in 1..Len(inbox.files) |-> FileInfo(inbox.files[i])]]

\* --------------------------------------------------------- context formatter

ContextHeader == <<"Context Files:\n\n">>

Banner(filePath) == <<"=== File: ">> \o Base(SplitPath(filePath)) \o <<" ===\n\n">>

\* ReadFileContent(filePath): [err, content]
ReadFileContent(filePath) ==
    IF Readable(filePath)
    THEN [err |-> Nil, content |-> FileBody(filePath)]
    ELSE [err |-> Err("IOError", "failed to read file", filePath), content |-> Empty]

\* The loop of FormatFileContext made to pass over a file it cannot read.
RECURSIVE FormatLoop_SkipsUnreadable(_, _)
FormatLoop_SkipsUnreadable(built, files) ==
    IF files = <<>> THEN [err |-> Nil, text |-> built]
    ELSE LET r == ReadFileContent(Head(files))
         IN  IF IsErr(r.err) THEN FormatLoop_SkipsUnreadable(built, Tail(files))
             ELSE FormatLoop_SkipsUnreadable(
                      built \o Banner(Head(files)) \o r.content \o <<"\n\n">>,
                      Tail(files))

\* The loop of FormatFileContext, the builder's text so far in `built`.
RECURSIVE FormatLoop(_, _)
FormatLoop(built, files) ==
    IF files = <<>> THEN [err |-> Nil, text |-> built]
    ELSE LET r == ReadFileContent(Head(files))
         IN  IF IsErr(r.err) THEN [err |-> r.err, text |-> Empty]
             ELSE FormatLoop(built \o Banner(Head(files)) \o r.content \o <<"\n\n">>,
                             Tail(files))

\* FormatFileContext(files): [err, text]
FormatFileContext(files) == FormatLoop(ContextHeader, files)

\* --------------------------------------------------------------------- state

VARIABLES
    entry,          \* the function the process runs: "runPrompt", "runPromptRun", "StreamExecute"
    hasClaudeCode,  \* what claude.IsAvailable() answers
    apiKey,         \* os.Getenv("OPENROUTER_API_KEY")
    useClaudeCode,  \* runPromptRun: the --claude flag; runPrompt: its local of that name
    discoverFiles,  \* --discover
    saveOutput,     \* --save
    outputPath,     \* --output
    inputFiles,     \* --file, plus what discovery appends
    pc,             \* the position in the running function
    promptFiles,    \* runPrompt: the listed template file names
    prompt,         \* the selected template
    promptContent,  \* its body
    stdinPiped,     \* whether standard input was found to be a pipe
    userInput,
    fileContext,
    fullInput,
    result,         \* the response text
    ret,            \* the error the command returns (Running until it returns)
    trace,          \* the steps taken so far, in order
    warnings,       \* the warnings printed
    cancelled,      \* the interactive steps the user cancelled or declined
    failures,       \* the steps that failed, each with the trace length at the failure
    proc,           \* the client call and its subprocess
    clientRet,      \* what the client call returned
    backendCalls,   \* the backends invoked, in order
    locIdx,
    savePath,
    filename,
    rejects,        \* the entries the filename prompt refused
    fullPath,
    dirs,           \* the directories created
    files,          \* the files written: [path, content, by]
    call            \* a helper called on its own: [fn, arg, out]

flagVars == <<entry, hasClaudeCode, apiKey, discoverFiles, saveOutput, outputPath, call>>

tmplVars == <<promptFiles, prompt, promptContent>>

inputVars == <<stdinPiped, userInput, fileContext, fullInput, inputFiles>>

clientVars == <<proc, clientRet, backendCalls>>

saveVars == <<locIdx, savePath, filename, rejects, fullPath>>

fsVars == <<dirs, files>>

logVars == <<warnings, cancelled, failures>>

vars == <<flagVars, useClaudeCode, pc, tmplVars, inputVars, result, ret, trace,
          logVars, clientVars, saveVars, fsVars>>

\* The subprocess of one client call: nothing started yet.
NewProc(variant, content, input) ==
    [variant |-> variant, promptContent |-> content, userInput |-> input,
     started |-> FALSE, stdin |-> Empty, stdinClosed |-> FALSE, waited |-> FALSE,
     exit |-> -1, stdout |-> Empty, stderr |-> Empty]

NoProc == NewProc("none", Empty, Empty)

ClientResult(resp, err) == [resp |-> resp, err |-> err]

NoReturn == ClientResult(Empty, Running)

ApiKeys == {Empty, <<"sk-or-key">>}

Entries == {"runPrompt", "runPromptRun", "StreamExecute"}

\* No helper is called on its own.
NoCall == [fn |-> "none", arg |-> <<>>, out |-> <<>>]

Init ==
    /\ entry \in Entries
    /\ hasClaudeCode \in BOOLEAN
    /\ apiKey \in ApiKeys
    /\ IF entry = "runPromptRun"
       THEN /\ useClaudeCode \in BOOLEAN
            /\ discoverFiles \in BOOLEAN
            /\ saveOutput \in BOOLEAN
            /\ outputPath \in OutputPaths
            /\ inputFiles \in SeqsUpTo(ContextPaths, MaxFiles)
       ELSE /\ useClaudeCode = TRUE
            /\ discoverFiles = FALSE
            /\ saveOutput = TRUE
            /\ outputPath = Empty
            /\ inputFiles = <<>>
    /\ pc = IF entry = "StreamExecute" THEN "cl_start" ELSE "start"
    /\ promptFiles = <<>>
    /\ prompt = NoPrompt
    /\ promptContent = Empty
    /\ stdinPiped = FALSE
    /\ userInput = Empty
    /\ fileContext = Empty
    /\ fullInput = Empty
    /\ result = Empty
    /\ ret = Running
    /\ trace = <<>>
    /\ warnings = <<>>
    /\ cancelled = {}
    /\ failures = <<>>
    /\ IF entry = "StreamExecute"
       THEN proc \in {NewProc("StreamExecute", TemplateBody, u) : u \in UserTexts}
       ELSE proc = NoProc
    /\ clientRet = NoReturn
    /\ backendCalls = <<>>
    /\ locIdx = -1
    /\ savePath = Empty
    /\ filename = Empty
    /\ rejects = 0
    /\ fullPath = <<>>
    /\ dirs = {}
    /\ files = {}
    /\ call = NoCall

\* The command returns e.
Return(e) == ret' = e /\ pc' = "done"

\* Step `step` failed: it is recorded with the length of the trace it ends.
Failed(step) == failures' = Append(failures, [step |-> step, at |-> Len(trace')])

\* The user cancelled or declined the interactive step `step`.
Cancel(step) == cancelled' = cancelled \cup {step}

Log(events) == trace' = trace \o events

\* ------------------------------------------------- local-process client

\* fmt.Sprintf("%s\n\nUser Request:\n%s", promptContent, userInput)
FullPrompt(content, input) == content \o <<"\n\nUser Request:\n">> \o input

\* ExecutePrompt / StreamExecute when cmd.StdinPipe() fails.
PipeFailure == Err("IOError", "failed to create stdin pipe", Empty)

\* ExecutePrompt / StreamExecute when cmd.Start() fails.
StartFailure == Err("BackendUnavailable", "failed to start claude code", Empty)

\* ExecutePrompt / StreamExecute when io.WriteString(stdin, ...) fails.
WriteFailure == Err("IOError", "failed to write prompt", Empty)

\* WaitOutcome without the check for an empty response.
WaitOutcome_NoEmptyCheck(exit, stdout, stderr) ==
    IF exit # 0
    THEN ClientResult(Empty, Err("ExecutionFailed", "claude code execution failed", stderr))
    ELSE ClientResult(TrimSpace(stdout), Nil)

\* ExecutePrompt from cmd.Wait() on: what it returns for the subprocess's
\* exit code, standard output and standard error.
WaitOutcome(exit, stdout, stderr) ==
    IF exit # 0
    THEN ClientResult(Empty, Err("ExecutionFailed", "claude code execution failed", stderr))
    ELSE IF stdout = Empty
    THEN ClientResult(Empty, Err("EmptyResponse", "no response from Claude Code", Empty))
    ELSE ClientResult(TrimSpace(stdout), Nil)

\* StreamExecute: return cmd.Wait()
StreamWaitOutcome(exit) ==
    IF exit # 0
    THEN ClientResult(Empty, Err("ExecutionFailed", "exit status", Empty))
    ELSE ClientResult(Empty, Nil)

ctlVars == <<flagVars, useClaudeCode, tmplVars, inputVars, result, ret, logVars,
             saveVars, fsVars>>

\* exec.Command, cmd.StdinPipe(), cmd.Start()
ClientStart ==
    /\ pc = "cl_start"
    /\ \E outcome \in {"pipe failed", "start failed", "started"} :
        IF outcome = "pipe failed"
        THEN /\ Log(<<"StdinPipe">>)
             /\ clientRet' = ClientResult(Empty, PipeFailure)
             /\ pc' = "cl_done"
             /\ UNCHANGED proc
        ELSE IF outcome = "start failed"
        THEN /\ Log(<<"StdinPipe", "Start">>)
             /\ clientRet' = ClientResult(Empty, StartFailure)
             /\ pc' = "cl_done"
             /\ UNCHANGED proc
        ELSE /\ Log(<<"StdinPipe", "Start">>)
             /\ proc' = [proc EXCEPT !.started = TRUE]
             /\ pc' = "cl_write"
             /\ UNCHANGED clientRet
    /\ UNCHANGED <<ctlVars, backendCalls>>

\* io.WriteString(stdin, fullPrompt); stdin.Close()
ClientWrite ==
    /\ pc = "cl_write"
    /\ \E ok \in BOOLEAN :
        IF ok
        THEN /\ Log(<<"WriteStdin", "CloseStdin">>)
             /\ proc' = [proc EXCEPT !.stdin = FullPrompt(proc.promptContent, proc.userInput),
                                     !.stdinClosed = TRUE]
             /\ pc' = "cl_wait"
             /\ UNCHANGED clientRet
        ELSE /\ Log(<<"WriteStdin">>)
             /\ clientRet' = ClientResult(Empty, WriteFailure)
             /\ pc' = "cl_done"
             /\ UNCHANGED proc
    /\ UNCHANGED <<ctlVars, backendCalls>>

\* cmd.Wait() and what follows it
ClientWait ==
    /\ pc = "cl_wait"
    /\ \E exit \in {0, 1}, out \in Stdouts, err \in Stderrs \cup {Empty} :
        /\ proc' = [proc EXCEPT !.waited = TRUE, !.exit = exit,
                                !.stdout = out, !.stderr = err]
        /\ clientRet' = IF proc.variant = "StreamExecute"
                        THEN StreamWaitOutcome(exit)
                        ELSE WaitOutcome(exit, out, err)
    /\ Log(<<"Wait">>)
    /\ pc' = "cl_done"
    /\ UNCHANGED <<ctlVars, backendCalls>>

\* StreamExecute called on its own returns to its caller.
StreamReturn ==
    /\ pc = "cl_done"
    /\ entry = "StreamExecute"
    /\ Log(<<"Return">>)
    /\ Return(clientRet.err)
    /\ UNCHANGED <<flagVars, useClaudeCode, tmplVars, inputVars, result, logVars,
                   clientVars, saveVars, fsVars>>

\* ------------------------------------------------------ remote-API client

\* openrouter.Client.ExecutePrompt: what it may return.
OpenRouterOutcomes(key) ==
    IF key = Empty
    THEN {ClientResult(Empty, Err("BackendUnavailable", "no API key", Empty))}
    ELSE {ClientResult(a, Nil) : a \in RemoteAnswers}
         \cup {ClientResult(Empty, Err("ExecutionFailed", "request failed", Empty))}

\* ------------------------------------------------------------ the save steps

\* SavePathOf with the cases numbered from 1.
SavePathOf_OffByOne(idx) ==
    CASE idx = 1 -> <<"99_Assets", "/", "Project_Overview">>
      [] idx = 2 -> <<"99_Assets", "/", "Communications">>
      [] idx = 3 -> <<"99_Assets", "/", "POC_Documents">>
      [] idx = 4 -> <<"00_Inbox", "/", "notes">>
      [] OTHER -> Empty

\* The switch on the index chosen in the destination menu; index 4 (and any
\* other) leaves savePath at its zero value until the custom path is asked.
SavePathOf(idx) ==
    CASE idx = 0 -> <<"99_Assets", "/", "Project_Overview">>
      [] idx = 1 -> <<"99_Assets", "/", "Communications">>
      [] idx = 2 -> <<"99_Assets", "/", "POC_Documents">>
      [] idx = 3 -> <<"00_Inbox", "/", "notes">>
      [] OTHER -> Empty

\* The Validate function of the filename prompt: nil exactly when accepted.
ValidFilename(input) == TrimSpace(input) # Empty

\* filepath.Join(".", savePath, filename+".md")
SaveTarget(path, name) == Join(<< <<".">>, path, name \o <<".md">> >>)

ModelName == <<"google/gemini-2.0-flash-exp:free">>

\* The output content runPrompt formats.
InteractiveLayout(name, ts, selectedPrompt, input, response) ==
    <<"# ">> \o ReplaceAll(name, "_", " ")
    \o <<"\n\n**Date:** ">> \o ts
    \o <<"\n**Prompt Template:** ">> \o selectedPrompt
    \o <<"\n**Model:** ">> \o ModelName
    \o <<"\n\n## User Input\n\n">> \o input
    \o <<"\n\n## Response\n\n">> \o response
    \o <<"\n">>

\* The output content savePromptOutput formats.
RunLayout(promptName, ts, input, response) ==
    <<"# ">> \o promptName
    \o <<"\n\n**Date:** ">> \o ts
    \o <<"\n**Prompt:** ">> \o promptName
    \o <<"\n\n## Input\n\n">> \o input
    \o <<"\n\n## Response\n\n">> \o response
    \o <<"\n">>

File(path, content, by) == [path |-> path, content |-> content, by |-> by]

saveRest == <<flagVars, useClaudeCode, tmplVars, inputVars, result, warnings,
              failures, clientVars, fsVars>>

\* AskSave returning the prompt's error instead of nil when the user declines.
AskSave_DeclineIsError(here, next) ==
    /\ pc = here
    /\ Log(<<"ConfirmSave">>)
    /\ \E yes \in BOOLEAN :
        IF yes
        THEN pc' = next /\ UNCHANGED <<ret, cancelled>>
        ELSE Cancel("confirm") /\ Return(Err("Interrupted", "save prompt failed", Empty))
    /\ UNCHANGED <<saveRest, saveVars>>

\* The confirm prompt "Would you like to save this output": any error of the
\* prompt (the answer n, an interrupt) returns nil.
AskSave(here, next) ==
    /\ pc = here
    /\ Log(<<"ConfirmSave">>)
    /\ \E yes \in BOOLEAN :
        IF yes
        THEN pc' = next /\ UNCHANGED <<ret, cancelled>>
        ELSE Cancel("confirm") /\ Return(Nil)
    /\ UNCHANGED <<saveRest, saveVars>>

\* The destination menu and the switch on its index.
SelectLocation(here, customPc, filenamePc) ==
    /\ pc = here
    /\ Log(<<"LocationMenu">>)
    /\ \E choice \in -1..4 :
        IF choice = -1
        THEN Cancel("location") /\ Return(Nil) /\ UNCHANGED <<locIdx, savePath>>
        ELSE /\ locIdx' = choice
             /\ savePath' = SavePathOf(choice)
             /\ pc' = IF choice = 4 THEN customPc ELSE filenamePc
             /\ UNCHANGED <<ret, cancelled>>
    /\ UNCHANGED <<saveRest, filename, rejects, fullPath>>

\* case 4: the custom path prompt.
AskCustomPath(here, next) ==
    /\ pc = here
    /\ Log(<<"CustomPathPrompt">>)
    /\ \E cancel \in BOOLEAN, customPath \in CustomPaths :
        IF cancel
        THEN customPath = Empty /\ Cancel("custom") /\ Return(Nil) /\ UNCHANGED savePath
        ELSE savePath' = customPath /\ pc' = next /\ UNCHANGED <<ret, cancelled>>
    /\ UNCHANGED <<saveRest, locIdx, filename, rejects, fullPath>>

\* The filename prompt: an entry Validate refuses is not accepted, and the
\* prompt goes on asking.
AskFilename(here, next) ==
    /\ pc = here
    /\ \E cancel \in BOOLEAN, input \in Filenames :
        IF cancel
        THEN /\ input = Empty
             /\ Log(<<"FilenamePrompt">>)
             /\ Cancel("filename") /\ Return(Nil)
             /\ UNCHANGED <<filename, rejects>>
        ELSE IF ~ValidFilename(input)
        THEN /\ rejects < MaxRejects
             /\ rejects' = rejects + 1
             /\ Log(<<"FilenameRefused">>)
             /\ UNCHANGED <<pc, ret, cancelled, filename>>
        ELSE /\ filename' = input
             /\ Log(<<"FilenamePrompt">>)
             /\ pc' = next
             /\ UNCHANGED <<ret, cancelled, rejects>>
    /\ UNCHANGED <<saveRest, locIdx, savePath, fullPath>>

\* MkdirAndWrite going on to write the file after MkdirAll failed.
MkdirAndWrite_IgnoresMkdirError(target, content, by) ==
    \E mkdirOk \in BOOLEAN, writeOk \in BOOLEAN :
        /\ fullPath' = target
        /\ Log(<<"MkdirAll", "WriteFile">>)
        /\ IF ~mkdirOk
           THEN /\ failures' = Append(failures, [step |-> "mkdir", at |-> Len(trace) + 1])
                /\ UNCHANGED dirs
           ELSE /\ dirs' = dirs \cup {Dir(target)}
                /\ UNCHANGED failures
        /\ writeOk
        /\ files' = files \cup {File(target, content, by)}
        /\ Return(Nil)

\* os.MkdirAll(dir) then os.WriteFile(target, content): the first failure
\* returns its error.
MkdirAndWrite(target, content, by) ==
    \E mkdirOk \in BOOLEAN, writeOk \in BOOLEAN :
        /\ fullPath' = target
        /\ IF ~mkdirOk
           THEN /\ writeOk
                /\ Log(<<"MkdirAll">>)
                /\ Failed("mkdir")
                /\ Return(Err("IOError", "failed to create directory", Empty))
                /\ UNCHANGED <<dirs, files>>
           ELSE IF ~writeOk
           THEN /\ Log(<<"MkdirAll", "WriteFile">>)
                /\ Failed("write")
                /\ dirs' = dirs \cup {Dir(target)}
                /\ Return(Err("IOError", "failed to write file", Empty))
                /\ UNCHANGED files
           ELSE /\ Log(<<"MkdirAll", "WriteFile">>)
                /\ dirs' = dirs \cup {Dir(target)}
                /\ files' = files \cup {File(target, content, by)}
                /\ Return(Nil)
                /\ UNCHANGED failures

writeRest == <<flagVars, useClaudeCode, tmplVars, inputVars, result, warnings,
               cancelled, clientVars, locIdx, savePath, filename, rejects>>

\* --------------------------------------------------------------- runPrompt

\* The provider check and the choice of provider.
RP_ResolveBackend ==
    /\ pc = "start"
    /\ entry = "runPrompt"
    /\ Log(<<"ResolveBackend">>)
    /\ IF apiKey = Empty /\ ~hasClaudeCode
       THEN /\ Failed("resolve")
            /\ Return(Err("NoProviderConfigured", "no AI provider configured", Empty))
            /\ UNCHANGED useClaudeCode
       ELSE /\ useClaudeCode' = IF apiKey # Empty /\ ~hasClaudeCode THEN FALSE
                                ELSE hasClaudeCode
            /\ pc' = "rp_list"
            /\ UNCHANGED <<ret, failures>>
    /\ UNCHANGED <<flagVars, tmplVars, inputVars, result, warnings, cancelled,
                   clientVars, saveVars, fsVars>>

IsTemplateEntry(e) == ~e.isDir /\ HasSuffix(e.name, ".md")

\* The template file names runPrompt collects from the directory entries.
PromptFileNames(entries) ==
    LET kept == SelectSeq(entries, IsTemplateEntry)
    IN  [i \in 1..Len(kept) |-> kept[i].name]

\* os.Stat, os.ReadDir and the collection of the template files.
RP_ListTemplates ==
    /\ pc = "rp_list"
    /\ Log(<<"ListTemplates">>)
    /\ \E dir \in TemplateDirs :
        IF ~dir.exists
        THEN /\ Failed("list templates")
             /\ Return(Err("NotFound", "prompt templates directory not found", Empty))
             /\ UNCHANGED promptFiles
        ELSE IF ~dir.readable
        THEN /\ Failed("list templates")
             /\ Return(Err("IOError", "failed to read prompts directory", Empty))
             /\ UNCHANGED promptFiles
        ELSE IF Len(PromptFileNames(dir.entries)) = 0
        THEN /\ Failed("list templates")
             /\ Return(Err("NotFound", "no prompt templates found", Empty))
             /\ UNCHANGED promptFiles
        ELSE /\ promptFiles' = PromptFileNames(dir.entries)
             /\ pc' = "rp_select"
             /\ UNCHANGED <<ret, failures>>
    /\ UNCHANGED <<flagVars, useClaudeCode, prompt, promptContent, inputVars, result,
                   warnings, cancelled, clientVars, saveVars, fsVars>>

\* The template menu and the read of the selected file.
RP_SelectTemplate ==
    /\ pc = "rp_select"
    /\ Log(<<"TemplateMenu">>)
    /\ \E idx \in 0..Len(promptFiles), readable \in BOOLEAN :
        IF idx = 0
        THEN /\ readable
             /\ Cancel("template")
             /\ Return(Err("Interrupted", "prompt selection failed", Empty))
             /\ UNCHANGED <<prompt, promptContent, failures>>
        ELSE /\ prompt' = PromptInfo(
                    TrimSuffix(ReplaceAll(promptFiles[idx], "_", " "), ".md"),
                    promptFiles[idx],
                    PromptsPath \o <<promptFiles[idx]>>)
             /\ IF readable
                THEN /\ promptContent' = TemplateBody
                     /\ pc' = "rp_input"
                     /\ UNCHANGED <<ret, failures>>
                ELSE /\ Failed("read template")
                     /\ Return(Err("IOError", "failed to read prompt file", Empty))
                     /\ UNCHANGED promptContent
             /\ UNCHANGED cancelled
    /\ UNCHANGED <<flagVars, useClaudeCode, promptFiles, inputVars, result, warnings,
                   clientVars, saveVars, fsVars>>

\* The input prompt.
RP_Input ==
    /\ pc = "rp_input"
    /\ Log(<<"InputPrompt">>)
    /\ \E cancel \in BOOLEAN, text \in UserTexts :
        IF cancel
        THEN /\ text = Empty
             /\ Cancel("input")
             /\ Return(Err("Interrupted", "input prompt failed", Empty))
             /\ UNCHANGED userInput
        ELSE /\ userInput' = text
             /\ pc' = "rp_exec"
             /\ UNCHANGED <<ret, cancelled>>
    /\ UNCHANGED <<flagVars, useClaudeCode, tmplVars, stdinPiped, fileContext, fullInput,
                   inputFiles, result, warnings, failures, clientVars, saveVars, fsVars>>

\* The call of the chosen provider's ExecutePrompt.
RP_Execute ==
    /\ pc = "rp_exec"
    /\ Log(<<"Execute">>)
    /\ IF useClaudeCode
       THEN /\ backendCalls' = Append(backendCalls, "claude")
            /\ proc' = NewProc("ExecutePrompt", promptContent, userInput)
            /\ clientRet' = NoReturn
            /\ pc' = "cl_start"
       ELSE /\ backendCalls' = Append(backendCalls, "openrouter")
            /\ clientRet' \in OpenRouterOutcomes(apiKey)
            /\ pc' = "cl_done"
            /\ UNCHANGED proc
    /\ UNCHANGED ctlVars

\* The provider returned: its error is returned, its response displayed.
RP_Display ==
    /\ pc = "cl_done"
    /\ entry = "runPrompt"
    /\ IF IsErr(clientRet.err)
       THEN /\ UNCHANGED <<trace, result>>
            /\ Failed("execute")
            /\ Return(Wrap(IF useClaudeCode
                           THEN "failed to execute prompt with Claude Code"
                           ELSE "failed to execute prompt with OpenRouter",
                           clientRet.err))
       ELSE /\ result' = clientRet.resp
            /\ Log(<<"Display">>)
            /\ pc' = "rp_confirm"
            /\ UNCHANGED <<ret, failures>>
    /\ UNCHANGED <<flagVars, useClaudeCode, tmplVars, inputVars, warnings, cancelled,
                   clientVars, saveVars, fsVars>>

RP_AskSave == AskSave("rp_confirm", "rp_location")

RP_SelectLocation == SelectLocation("rp_location", "rp_custom", "rp_filename")

RP_AskCustomPath == AskCustomPath("rp_custom", "rp_filename")

RP_AskFilename == AskFilename("rp_filename", "rp_write")

\* The output content, the target path, MkdirAll and WriteFile.
RP_WriteOutput ==
    /\ pc = "rp_write"
    /\ \E ts \in Timestamps :
        MkdirAndWrite(SaveTarget(savePath, filename),
                      InteractiveLayout(filename, ts, prompt.FileName, userInput, result),
                      "runPrompt")
    /\ UNCHANGED writeRest

\* ------------------------------------------------------------ runPromptRun

\* FindPrompt, with the listing of the available prompts on failure, and the
\* read of the template file.
RR_FindPrompt ==
    /\ pc = "start"
    /\ entry = "runPromptRun"
    /\ Log(<<"FindPrompt">>)
    /\ \E dir \in TemplateDirs, promptName \in PromptNames, readable \in BOOLEAN :
        LET found == FindPrompt(dir, promptName)
        IN  IF IsErr(found.err)
            THEN /\ readable
                 /\ Failed("find template")
                 /\ Return(found.err)
                 /\ UNCHANGED <<prompt, promptContent>>
            ELSE /\ prompt' = found.prompt
                 /\ IF readable
                    THEN /\ promptContent' = TemplateBody
                         /\ pc' = "rr_stdin"
                         /\ UNCHANGED <<ret, failures>>
                    ELSE /\ Failed("read template")
                         /\ Return(Err("IOError", "failed to read prompt file", Empty))
                         /\ UNCHANGED promptContent
    /\ UNCHANGED <<flagVars, useClaudeCode, promptFiles, inputVars, result, warnings,
                   cancelled, clientVars, saveVars, fsVars>>

\* os.Stdin.Stat() and, when standard input is a pipe, io.ReadAll(os.Stdin).
RR_ReadStdin ==
    /\ pc = "rr_stdin"
    /\ \E piped \in BOOLEAN, ok \in BOOLEAN, data \in StdinData :
        /\ stdinPiped' = piped
        /\ IF ~piped
           THEN /\ ok /\ data = Empty
                /\ Log(<<"StatStdin">>)
                /\ pc' = "rr_discover"
                /\ UNCHANGED <<userInput, ret, failures>>
           ELSE IF ~ok
           THEN /\ data = Empty
                /\ Log(<<"StatStdin", "ReadStdin">>)
                /\ Failed("read stdin")
                /\ Return(Err("IOError", "failed to read stdin", Empty))
                /\ UNCHANGED userInput
           ELSE /\ Log(<<"StatStdin", "ReadStdin">>)
                /\ userInput' = data
                /\ pc' = "rr_discover"
                /\ UNCHANGED <<ret, failures>>
    /\ UNCHANGED <<flagVars, useClaudeCode, tmplVars, fileContext, fullInput, inputFiles,
                   result, warnings, cancelled, clientVars, saveVars, fsVars>>

\* discoverAndSelectFiles when the inbox cannot be scanned or holds no file:
\* the error it returns (Nil when the menu is to be shown).
DiscoverError(inbox) ==
    LET d == DiscoverFiles(inbox)
    IN  IF IsErr(d.err) THEN d.err
        ELSE IF Len(d.files) = 0
        THEN Err("NotFound", "no files found in inbox", Empty)
        ELSE Nil

\* if discoverFiles { discoverAndSelectFiles ... }: an error is a warning,
\* a selection is appended to inputFiles.
RR_Discover ==
    /\ pc = "rr_discover"
    /\ pc' = "rr_context"
    /\ IF ~discoverFiles
       THEN UNCHANGED <<trace, warnings, cancelled, failures, inputFiles>>
       ELSE \E inbox \in Inboxes, idx \in 0..1 :
            IF IsErr(DiscoverError(inbox))
            THEN /\ idx = 0
                 /\ Log(<<"DiscoverFiles">>)
                 /\ Failed("discover")
                 /\ warnings' = Append(warnings, DiscoverError(inbox))
                 /\ UNCHANGED <<cancelled, inputFiles>>
            ELSE IF idx = 0
            THEN /\ Log(<<"DiscoverFiles", "DiscoverMenu">>)
                 /\ Cancel("inbox")
                 /\ warnings' = Append(warnings, Err("Interrupted", "^C", Empty))
                 /\ UNCHANGED <<failures, inputFiles>>
            ELSE /\ idx <= Len(inbox.files)
                 /\ Log(<<"DiscoverFiles", "DiscoverMenu">>)
                 /\ inputFiles' = inputFiles \o <<DiscoverFiles(inbox).files[idx].Path>>
                 /\ UNCHANGED <<warnings, cancelled, failures>>
    /\ UNCHANGED <<flagVars, useClaudeCode, tmplVars, stdinPiped, userInput, fileContext,
                   fullInput, result, ret, clientVars, saveVars, fsVars>>

\* if len(inputFiles) > 0 { FormatFileContext ... }
RR_ReadContext ==
    /\ pc = "rr_context"
    /\ IF Len(inputFiles) > 0
       THEN LET r == FormatFileContext(inputFiles)
            IN  /\ Log(<<"ReadContext">>)
                /\ IF IsErr(r.err)
                   THEN /\ Failed("read context")
                        /\ Return(Wrap("failed to read context files", r.err))
                        /\ UNCHANGED fileContext
                   ELSE /\ fileContext' = r.text
                        /\ pc' = "rr_input"
                        /\ UNCHANGED <<ret, failures>>
       ELSE /\ pc' = "rr_input"
            /\ UNCHANGED <<trace, fileContext, ret, failures>>
    /\ UNCHANGED <<flagVars, useClaudeCode, tmplVars, stdinPiped, userInput, fullInput,
                   inputFiles, result, warnings, cancelled, clientVars, saveVars, fsVars>>

\* NeedsInputPrompt looking at the user input alone.
NeedsInputPrompt_IgnoresContext(input, context) == input = Empty

\* if userInput == "" && fileContext == ""
NeedsInputPrompt(input, context) == input = Empty /\ context = Empty

InputSeparator == <<"\n\nUser Input:\n">>

\* fullInput := fileContext; if userInput != "" { separator if needed; += userInput }
CombineInput(context, input) ==
    IF input # Empty
    THEN IF context # Empty THEN context \o InputSeparator \o input ELSE input
    ELSE context

\* The input prompt when nothing was gathered, and the combination.
RR_Input ==
    /\ pc = "rr_input"
    /\ IF NeedsInputPrompt(userInput, fileContext)
       THEN /\ Log(<<"InputPrompt">>)
            /\ \E cancel \in BOOLEAN, text \in UserTexts :
                IF cancel
                THEN /\ text = Empty
                     /\ Cancel("input")
                     /\ Return(Err("Interrupted", "input prompt failed", Empty))
                     /\ UNCHANGED <<userInput, fullInput>>
                ELSE /\ userInput' = text
                     /\ fullInput' = CombineInput(fileContext, text)
                     /\ pc' = "rr_exec"
                     /\ UNCHANGED <<ret, cancelled>>
       ELSE /\ fullInput' = CombineInput(fileContext, userInput)
            /\ pc' = "rr_exec"
            /\ UNCHANGED <<trace, userInput, ret, cancelled>>
    /\ UNCHANGED <<flagVars, useClaudeCode, tmplVars, stdinPiped, fileContext, inputFiles,
                   result, warnings, failures, clientVars, saveVars, fsVars>>

\* if useClaudeCode { IsAvailable check; ExecutePrompt } else { not implemented }
RR_Execute ==
    /\ pc = "rr_exec"
    /\ IF useClaudeCode
       THEN IF ~hasClaudeCode
            THEN /\ Log(<<"ResolveBackend">>)
                 /\ Failed("resolve")
                 /\ Return(Err("BackendUnavailable", "Claude Code not available", Empty))
                 /\ UNCHANGED clientVars
            ELSE /\ Log(<<"ResolveBackend", "Execute">>)
                 /\ backendCalls' = Append(backendCalls, "claude")
                 /\ proc' = NewProc("ExecutePrompt", promptContent, fullInput)
                 /\ clientRet' = NoReturn
                 /\ pc' = "cl_start"
                 /\ UNCHANGED <<ret, failures>>
       ELSE /\ UNCHANGED trace
            /\ Failed("execute")
            /\ Return(Err("NotImplemented",
                          "OpenRouter integration not yet implemented for run command",
                          Empty))
            /\ UNCHANGED clientVars
    /\ UNCHANGED <<flagVars, useClaudeCode, tmplVars, inputVars, result, warnings,
                   cancelled, saveVars, fsVars>>

\* The client returned: its error is returned; its response is displayed and
\* the save handling chosen.
RR_Display ==
    /\ pc = "cl_done"
    /\ entry = "runPromptRun"
    /\ IF IsErr(clientRet.err)
       THEN /\ UNCHANGED <<trace, result>>
            /\ Failed("execute")
            /\ Return(Wrap("failed to execute prompt with Claude Code", clientRet.err))
       ELSE /\ result' = clientRet.resp
            /\ Log(<<"Display">>)
            /\ UNCHANGED failures
            /\ IF outputPath # Empty
               THEN pc' = "so_write" /\ UNCHANGED ret
               ELSE IF saveOutput
               THEN pc' = "rr_confirm" /\ UNCHANGED ret
               ELSE Return(Nil)
    /\ UNCHANGED <<flagVars, useClaudeCode, tmplVars, inputVars, warnings, cancelled,
                   clientVars, saveVars, fsVars>>

RR_AskSave == AskSave("rr_confirm", "si_location")

SI_SelectLocation == SelectLocation("si_location", "si_custom", "si_filename")

SI_AskCustomPath == AskCustomPath("si_custom", "si_filename")

SI_AskFilename == AskFilename("si_filename", "so_write")

\* savePromptOutput, called with --output's path or with the path
\* savePromptOutputInteractive joins.
SavePromptOutput ==
    /\ pc = "so_write"
    /\ \E ts \in Timestamps :
        IF outputPath # Empty
        THEN MkdirAndWrite(Clean(SplitPath(outputPath)),
                           RunLayout(prompt.Name, ts, fullInput, result),
                           "output flag")
        ELSE MkdirAndWrite(SaveTarget(savePath, filename),
                           RunLayout(prompt.Name, ts, fullInput, result),
                           "savePromptOutputInteractive")
    /\ UNCHANGED writeRest

\* ------------------------------------------------------------ specification

Next ==
    \/ RP_ResolveBackend
    \/ RP_ListTemplates
    \/ RP_SelectTemplate
    \/ RP_Input
    \/ RP_Execute
    \/ RP_Display
    \/ RP_AskSave
    \/ RP_SelectLocation
    \/ RP_AskCustomPath
    \/ RP_AskFilename
    \/ RP_WriteOutput
    \/ RR_FindPrompt
    \/ RR_ReadStdin
    \/ RR_Discover
    \/ RR_ReadContext
    \/ RR_Input
    \/ RR_Execute
    \/ RR_Display
    \/ RR_AskSave
    \/ SI_SelectLocation
    \/ SI_AskCustomPath
    \/ SI_AskFilename
    \/ SavePromptOutput
    \/ ClientStart
    \/ ClientWrite
    \/ ClientWait
    \/ StreamReturn

Spec == Init /\ [][Next]_vars

\* ------------------------------------------- the helpers called on their own

\* How many entries the templates directory holds.
MaxTemplates == 3

\* The file names a templates directory may hold: names that differ only in
\* letter case, a name that contains another, two names with one display
\* name, a name that starts with a space, and a file that is not a template.
FindFiles ==
    { <<"Sales", ".md">>,
      <<"sales", ".md">>,
      SalesFile,
      <<"Sales", " ", "Discovery", ".md">>,
      DemoFile,
      <<" ", "Demo", ".md">>,
      NotesFile }

\* The names FindPrompt is asked for.
FindQueries ==
    { <<"Sales">>, <<"sales">>, <<"SALES">>,
      <<"Sales", " ", "Discovery">>, <<"SALES", " ", "DISCOVERY">>,
      <<"sales", " ", "discovery">>, <<"Sales", "_", "Discovery">>,
      <<"Demo">>, <<"DEMO">>, <<" ", "Demo">>,
      <<"Discovery">>, <<" ", "Sales", "\n">>, <<"nope">> }

\* The listings of a directory: no file name twice, every order.
Listings ==
    {Dir_(TRUE, TRUE, [i \in 1..Len(q) |-> Entry(q[i], FALSE)]) :
        q \in {r \in SeqsUpTo(FindFiles, MaxTemplates) :
                  \A i, j \in 1..Len(r) : r[i] = r[j] => i = j}}

\* The paths FormatFileContext is given.
CallPaths == {NotesTxt, InboxFile, MissingFile, LockedFile}

\* The calls made: FindPrompt(dir, query) and FormatFileContext(files).
Calls ==
    {[fn |-> "FindPrompt", arg |-> [dir |-> d, query |-> q], out |-> <<>>] :
        d \in Listings, q \in FindQueries}
    \cup {[fn |-> "FormatFileContext", arg |-> f, out |-> <<>>] :
        f \in SeqsUpTo(CallPaths, MaxFiles)}

InitCalls ==
    /\ call \in Calls
    /\ entry = call.fn
    /\ hasClaudeCode = FALSE
    /\ apiKey = Empty
    /\ useClaudeCode = FALSE
    /\ discoverFiles = FALSE
    /\ saveOutput = FALSE
    /\ outputPath = Empty
    /\ inputFiles = <<>>
    /\ pc = "call"
    /\ promptFiles = <<>>
    /\ prompt = NoPrompt
    /\ promptContent = Empty
    /\ stdinPiped = FALSE
    /\ userInput = Empty
    /\ fileContext = Empty
    /\ fullInput = Empty
    /\ result = Empty
    /\ ret = Running
    /\ trace = <<>>
    /\ warnings = <<>>
    /\ cancelled = {}
    /\ failures = <<>>
    /\ proc = NoProc
    /\ clientRet = NoReturn
    /\ backendCalls = <<>>
    /\ locIdx = -1
    /\ savePath = Empty
    /\ filename = Empty
    /\ rejects = 0
    /\ fullPath = <<>>
    /\ dirs = {}
    /\ files = {}

callRest ==
    <<entry, hasClaudeCode, apiKey, discoverFiles, saveOutput, outputPath,
      useClaudeCode, tmplVars, inputVars, result, trace, logVars, clientVars,
      saveVars, fsVars>>

\* FindPrompt(projectRoot, promptName) returns.
CallFindPrompt ==
    /\ pc = "call"
    /\ call.fn = "FindPrompt"
    /\ LET r == FindPrompt(call.arg.dir, call.arg.query)
       IN  /\ call' = [call EXCEPT !.out = r]
           /\ Return(r.err)
    /\ UNCHANGED callRest

\* FormatFileContext(files) returns.
CallFormatFileContext ==
    /\ pc = "call"
    /\ call.fn = "FormatFileContext"
    /\ LET r == FormatFileContext(call.arg)
       IN  /\ call' = [call EXCEPT !.out = r]
           /\ Return(r.err)
    /\ UNCHANGED callRest

NextCalls ==
    \/ CallFindPrompt
    \/ CallFormatFileContext

SpecCalls == InitCalls /\ [][NextCalls]_vars

\* --------------------------------------------------------- reading the state

\* Whether the step `e` was taken in the trace `tr`.
Has(tr, e) == \E i \in 1..Len(tr) : tr[i] = e

\* The position of the first `e` in `tr` (0 when absent).
FirstAt(tr, e) == IF Has(tr, e) THEN SetMin({i \in 1..Len(tr) : tr[i] = e}) ELSE 0

IsCommand == entry \in {"runPrompt", "runPromptRun"}

Done == pc = "done"

\* The phase of the state machine a step belongs to:
\* 1 ResolvingBackend, 2 SelectingTemplate, 3 GatheringInput, 4 Executing,
\* 5 DisplayingResult, 6 Saving.
PhaseOf(e) ==
    CASE e = "ResolveBackend" -> 1
      [] e \in {"ListTemplates", "TemplateMenu", "FindPrompt"} -> 2
      [] e \in {"StatStdin", "ReadStdin", "DiscoverFiles", "DiscoverMenu",
                "ReadContext", "InputPrompt"} -> 3
      [] e \in {"Execute", "StdinPipe", "Start", "WriteStdin", "CloseStdin", "Wait"} -> 4
      [] e = "Display" -> 5
      [] OTHER -> 6

\* ------------------------------------------------------------------ claims

\* C1: in every run of either command, when the local assistant is not
\* available and the credential variable is unset, the run fails with
\* NoProviderConfigured, no backend is ever invoked and no file is written.
C1_NoProviderConfigured ==
    (IsCommand /\ ~hasClaudeCode /\ apiKey = Empty) =>
        /\ backendCalls = <<>>
        /\ files = {}
        /\ Done => ret.kind = "NoProviderConfigured"

\* C2: every run of either command takes its steps in the phase order
\* ResolvingBackend, SelectingTemplate, GatheringInput, Executing,
\* DisplayingResult, Saving: the backend is resolved before the template is
\* selected and before input is gathered, the backend is invoked only after
\* input gathering, and a file is written only after an execution succeeded
\* and its result was displayed.
C2_PhaseOrder ==
    IsCommand =>
        /\ \A i, j \in 1..Len(trace) : i < j => PhaseOf(trace[i]) <= PhaseOf(trace[j])
        /\ trace # <<>> => trace[1] = "ResolveBackend"
        /\ Has(trace, "Execute") => pc \notin {"start", "rp_list", "rp_select", "rp_input",
                                               "rr_stdin", "rr_discover", "rr_context",
                                               "rr_input"}
        /\ files # {} => Has(trace, "Display") /\ clientRet.err = Nil

\* The remote API is the chosen backend: the local assistant is absent, or
\* the run command's --claude flag deselects it.
RemoteChosen == ~hasClaudeCode \/ (entry = "runPromptRun" /\ ~useClaudeCode)

\* C3: the backends are selected by availability, the local assistant
\* preferred: where it is available (and not deselected) it is the backend
\* invoked; where the remote API is the chosen backend and the credential is
\* present the prompt is executed through the remote API rather than the run
\* failing for want of a backend; a successful run invokes exactly one backend.
C3_BackendSelection ==
    IsCommand =>
        /\ ~RemoteChosen => backendCalls \in {<<>>, <<"claude">>}
        /\ (RemoteChosen /\ apiKey # Empty) =>
              /\ backendCalls \in {<<>>, <<"openrouter">>}
              /\ Done => ret.kind \notin {"BackendUnavailable", "NotImplemented",
                                          "NoProviderConfigured"}
        /\ (Done /\ ret = Nil /\ Has(trace, "Display")) => Len(backendCalls) = 1

\* The explicit context files among inputFiles (discovery appends inbox files).
ExplicitFiles == SelectSeq(inputFiles, LAMBDA f : f \in ContextPaths)

\* C4 as stated: in the run command the input sources are alternatives in
\* strict priority (piped stdin, else context files, else inbox discovery,
\* else the interactive prompt): once stdin has produced content no file
\* context is read and no discovery is made, and discovery is made only when
\* no explicit context file was given.
C4_StrictPriority ==
    entry = "runPromptRun" =>
        /\ (Has(trace, "ReadStdin") /\ userInput # Empty /\ ~Has(trace, "InputPrompt")) =>
              /\ ~Has(trace, "ReadContext")
              /\ ~Has(trace, "DiscoverFiles")
        /\ ExplicitFiles # <<>> => ~Has(trace, "DiscoverFiles")

\* C4 as amended: in the run command the input sources are cumulative.
\* Standard input is read whenever it is a pipe; the inbox discovery is made
\* whenever --discover is set, whatever stdin held, and its selection is
\* appended to the explicit context files; the context files are read
\* whenever that list is not empty; the interactive prompt is shown exactly
\* when stdin gave no text and there is no file context.  The full input is
\* the file context, then the literal separator when both are present, then
\* the user's text.
C4_CumulativeSources ==
    [][entry = "runPromptRun" =>
        /\ pc = "rr_stdin" => (Has(trace', "ReadStdin") <=> stdinPiped')
        /\ pc = "rr_discover" => (Has(trace', "DiscoverFiles") <=> discoverFiles)
        /\ pc = "rr_context" => (Has(trace', "ReadContext") <=> Len(inputFiles) > 0)
        /\ pc = "rr_input" =>
              (Has(trace', "InputPrompt") <=> (userInput = Empty /\ fileContext = Empty))
        /\ (pc = "rr_input" /\ pc' = "rr_exec") =>
              fullInput' = IF fileContext # Empty /\ userInput' # Empty
                           THEN fileContext \o <<"\n\nUser Input:\n">> \o userInput'
                           ELSE fileContext \o userInput'
      ]_vars

\* C4 witness: piped text, a discovered file and an explicit file all went
\* into one full input, context first.
C4_Witness ==
    /\ entry = "runPromptRun"
    /\ pc = "rr_exec"
    /\ Has(trace, "ReadStdin") /\ Has(trace, "DiscoverMenu") /\ Has(trace, "ReadContext")
    /\ ~Has(trace, "InputPrompt")
    /\ inputFiles = <<NotesTxt, InboxFile>>
    /\ userInput = <<"piped">>
    /\ fullInput = fileContext \o <<"\n\nUser Input:\n">> \o <<"piped">>

\* C5 as stated: a failure of any step, inbox discovery included, ends the
\* run at that step with an error: no later step runs, nothing is retried,
\* the backend is invoked at most once.
C5_AnyFailureTerminates ==
    IsCommand =>
        /\ \A i \in 1..Len(failures) :
              Done /\ IsErr(ret) /\ Len(trace) = failures[i].at
        /\ Len(backendCalls) <= 1

\* C5 as amended: a failure of any step other than inbox discovery ends the
\* run at that step with an error, no later step runs, and the backend is
\* invoked at most once; a failed inbox discovery (inbox missing, scan
\* failure, no file found) is printed as a warning and the run goes on
\* without discovered files.
C5_FailureTerminatesExceptDiscovery ==
    IsCommand =>
        /\ \A i \in 1..Len(failures) :
              IF failures[i].step = "discover"
              THEN /\ warnings # <<>>
                   /\ warnings[1].kind \in {"NotFound", "IOError"}
                   /\ inputFiles = ExplicitFiles
                   /\ ret # warnings[1]
                   /\ pc # "rr_discover"
                   /\ pc = "rr_context" => ret = Running
              ELSE /\ i = Len(failures)
                   /\ Done /\ IsErr(ret)
                   /\ Len(trace) = failures[i].at
        /\ Len(backendCalls) <= 1

\* C5 witness: a run whose discovery failed went on and ended at a later
\* failed step.
C5_Witness ==
    /\ Done
    /\ Len(failures) = 2
    /\ failures[1].step = "discover"
    /\ failures[2].step = "write"
    /\ ret.kind = "IOError"

SaveCancels == {"confirm", "location", "custom", "filename"}

\* C6 as stated: whatever interactive step the user declines or cancels, the
\* run ends with a clean success and writes no file.
C6_CancelIsCleanSuccess ==
    (IsCommand /\ cancelled # {}) => Done /\ ret = Nil /\ files = {}

\* C6 as amended: declining the save confirmation, or cancelling the
\* destination menu, the custom-path prompt or the filename prompt, ends the
\* run with a clean success and no file written; cancelling the template
\* menu or the input prompt ends the run with an error (before any backend
\* is invoked, no file written); cancelling the inbox file selection is
\* printed as a warning and the run goes on.
C6_SaveCancelIsCleanSuccess ==
    IsCommand =>
        /\ cancelled \cap SaveCancels # {} => Done /\ ret = Nil /\ files = {}
        /\ cancelled \cap {"template", "input"} # {} =>
              /\ Done /\ ret.kind = "Interrupted"
              /\ files = {} /\ backendCalls = <<>>
        /\ "inbox" \in cancelled => warnings # <<>> /\ pc # "rr_discover"

\* C6 witness: a run that cancelled the inbox menu went on to a displayed
\* result and then ended cleanly on a cancelled filename prompt.
C6_Witness ==
    /\ Done /\ ret = Nil
    /\ cancelled = {"inbox", "filename"}
    /\ Has(trace, "Display")

\* The destination directory of the interactive save, by menu index: the
\* four canned subpaths, and for index 4 the custom path as entered.
C7_Destination(idx, custom) ==
    CASE idx = 0 -> << <<"99_Assets">>, <<"Project_Overview">> >>
      [] idx = 1 -> << <<"99_Assets">>, <<"Communications">> >>
      [] idx = 2 -> << <<"99_Assets">>, <<"POC_Documents">> >>
      [] idx = 3 -> << <<"00_Inbox">>, <<"notes">> >>
      [] idx = 4 -> LET segs == SelectSeq(custom, LAMBDA a : a # "/")
                    IN  [i \in 1..Len(segs) |-> <<segs[i]>>]

\* C7: in the interactive save step the file is written to exactly
\* <destination>/<f>.md, the destination being the canned subpath of index
\* 0..3 or the custom path of index 4; the parent directory is created
\* first; no file is written with an empty or whitespace-only filename.
C7_SaveDestination ==
    \A f \in files :
        f.by \in {"runPrompt", "savePromptOutputInteractive"} =>
            /\ locIdx \in 0..4
            /\ f.path = C7_Destination(locIdx, savePath) \o << filename \o <<".md">> >>
            /\ \E i \in 1..Len(filename) : filename[i] \notin {" ", "\t", "\n", "\r"}
            /\ Dir(f.path) \in dirs
            /\ FirstAt(trace, "MkdirAll") > 0
            /\ FirstAt(trace, "MkdirAll") < FirstAt(trace, "WriteFile")

\* C7 witness: index 3 and the filename `meeting` wrote 00_Inbox/notes/meeting.md.
C7_Witness ==
    /\ locIdx = 3
    /\ filename = <<"meeting">>
    /\ \E f \in files :
          f.path = << <<"00_Inbox">>, <<"notes">>, <<"meeting", ".md">> >>

\* The section each literal of a saved file opens when the file is read back.
SectionOf(a) ==
    CASE a = "# " -> "title"
      [] a = "\n\n**Date:** " -> "date"
      [] a \in {"\n**Prompt Template:** ", "\n**Prompt:** "} -> "template"
      [] a = "\n**Model:** " -> "model"
      [] a \in {"\n\n## User Input\n\n", "\n\n## Input\n\n"} -> "input"
      [] a = "\n\n## Response\n\n" -> "response"
      [] a = "\n" -> "end"
      [] OTHER -> "text"

\* A saved file read back: its sections in order, each with its text.
RECURSIVE ReadBack(_)
ReadBack(content) ==
    IF content = <<>> THEN <<>>
    ELSE LET rest == Tail(content)
             labels == {i \in 1..Len(rest) : SectionOf(rest[i]) # "text"}
             n == IF labels = {} THEN Len(rest) ELSE SetMin(labels) - 1
         IN  <<[section |-> SectionOf(Head(content)), text |-> SubSeq(rest, 1, n)]>>
             \o ReadBack(SubSeq(rest, n + 1, Len(rest)))

\* C8: every file written by any save path reads back as the one fixed
\* layout title, date, template name, model identifier, input, response,
\* holding the run's input and response unchanged, whichever command wrote it.
C8_FixedLayoutRoundTrip ==
    \A f \in files :
        LET back == ReadBack(f.content)
        IN  /\ [i \in 1..Len(back) |-> back[i].section]
                 = <<"title", "date", "template", "model", "input", "response", "end">>
            /\ back[5].text = (IF f.by = "runPrompt" THEN userInput ELSE fullInput)
            /\ back[6].text = result

\* C9: ExecutePrompt maps each failure to its own error and returns no text
\* with an error: BackendUnavailable when the subprocess cannot be started,
\* ExecutionFailed carrying the captured standard error on a non-zero exit,
\* EmptyResponse on a zero exit with empty standard output; it returns a
\* response only when the subprocess started, exited zero and produced output.
C9_ExecuteErrorMapping ==
    (proc.variant = "ExecutePrompt" /\ clientRet.err # Running) =>
        /\ (Has(trace, "Start") /\ ~proc.started) =>
              clientRet.err.kind = "BackendUnavailable"
        /\ (proc.waited /\ proc.exit # 0) =>
              /\ clientRet.err.kind = "ExecutionFailed"
              /\ clientRet.err.detail = proc.stderr
        /\ (proc.waited /\ proc.exit = 0 /\ proc.stdout = <<>>) =>
              clientRet.err.kind = "EmptyResponse"
        /\ IsErr(clientRet.err) => clientRet.resp = <<>>
        /\ clientRet.err = Nil =>
              /\ proc.started /\ proc.waited /\ proc.exit = 0 /\ proc.stdout # <<>>
              /\ \A i \in 1..Len(clientRet.resp) : Has(proc.stdout, clientRet.resp[i])

\* C9 witness: a non-zero exit was returned as ExecutionFailed with the
\* standard error the subprocess printed.
C9_Witness ==
    /\ proc.variant = "ExecutePrompt"
    /\ proc.waited /\ proc.exit = 1 /\ proc.stderr = <<"boom">>
    /\ clientRet.err.kind = "ExecutionFailed"
    /\ clientRet.err.detail = <<"boom">>

\* C10: once ExecutePrompt or StreamExecute has started the subprocess, it
\* has written the prompt, closed standard input and waited for the exit, in
\* that order, whenever it returns.
C10_ClosedAndWaited ==
    (proc.started /\ clientRet.err # Running) =>
        /\ proc.stdinClosed
        /\ proc.waited
        /\ FirstAt(trace, "WriteStdin") < FirstAt(trace, "CloseStdin")
        /\ FirstAt(trace, "CloseStdin") < FirstAt(trace, "Wait")

\* ------------------------------------------------------ the template finder

\* FindPrompt was called on its own and has returned.
FindReturned == call.fn = "FindPrompt" /\ pc = "done"

\* The templates the call listed, in directory order.
Listed == ListPrompts(call.arg.dir).prompts

\* The name asked for is the display name of `t` in some letter case.
AsksFor(t) == ToLower(call.arg.query) = ToLower(t.Name)

\* The name asked for, trimmed, equals the display name of `t` or its file
\* name without the extension, letter case aside.
MatchesExactly(t) ==
    LET term == ToLower(TrimSpace(call.arg.query))
    IN  \/ ToLower(t.Name) = term
        \/ ToLower(SubSeq(t.FileName, 1, Len(t.FileName) - 1)) = term

\* The display name of `t` contains the name asked for, letter case aside.
MatchesPartly(t) ==
    LET term == ToLower(TrimSpace(call.arg.query))
        name == ToLower(t.Name)
    IN  \E i \in 1..(Len(name) + 1), j \in 0..Len(name) :
            j >= i - 1 /\ SubSeq(name, i, j) = term

\* A substring match is returned only when no template matches exactly, and
\* NotFound only when no template matches at all.
C11_Fallbacks ==
    /\ (call.out.err = Nil /\ ~MatchesExactly(call.out.prompt)) =>
           /\ MatchesPartly(call.out.prompt)
           /\ \A i \in 1..Len(Listed) : ~MatchesExactly(Listed[i])
    /\ (IsErr(call.out.err) /\ Listed # <<>>) =>
           /\ call.out.err.kind = "NotFound"
           /\ \A i \in 1..Len(Listed) :
                  ~MatchesExactly(Listed[i]) /\ ~MatchesPartly(Listed[i])

\* C11: for every set of listed templates and every template T in it, find
\* called with T's exact display name in any letter case returns T itself,
\* whatever other templates contain that name or have it as their file name
\* without the extension and whatever the directory order; a substring match
\* is returned only when no template matches exactly, and NotFound only when
\* no template matches at all.
C11_ExactNameReturnsThatTemplate ==
    FindReturned =>
        /\ \A i \in 1..Len(Listed) :
               AsksFor(Listed[i]) =>
                   call.out.err = Nil /\ call.out.prompt = Listed[i]
        /\ C11_Fallbacks

\* C11, amended: for every template T whose display name neither starts nor
\* ends with white space, find called with T's display name in any letter
\* case returns the first template in directory order whose display name
\* equals T's up to letter case (T itself when it is the only one), whatever
\* other templates contain that name; the fallbacks are as in the claim.
C11_FirstOfThatNameInListingOrder ==
    FindReturned =>
        /\ \A i \in 1..Len(Listed) :
               (AsksFor(Listed[i]) /\ TrimSpace(Listed[i].Name) = Listed[i].Name) =>
                   LET same == {j \in 1..Len(Listed) :
                                   ToLower(Listed[j].Name) = ToLower(Listed[i].Name)}
                   IN  /\ call.out.err = Nil
                       /\ call.out.prompt = Listed[SetMin(same)]
                       /\ same = {i} => call.out.prompt = Listed[i]
        /\ C11_Fallbacks

\* FindPrompt was asked for "SALES" in a directory that lists a template
\* whose name contains "Sales" before the template named "Sales", and it
\* returned the latter.
C11_Witness ==
    /\ FindReturned
    /\ call.arg.query = <<"SALES">>
    /\ Len(Listed) >= 2
    /\ Listed[1].Name = <<"Sales", " ", "Discovery">>
    /\ Listed[2].FileName = <<"Sales", ".md">>
    /\ call.out.err = Nil
    /\ call.out.prompt = Listed[2]

\* ----------------------------------------------------- the context formatter

\* FormatFileContext was called on its own and has returned.
FormatReturned == call.fn = "FormatFileContext" /\ pc = "done"

\* The positions of the paths of the call that cannot be read.
Unreadable == {i \in 1..Len(call.arg) : ~Readable(call.arg[i])}

\* The section of one file: a banner naming the last element of its path,
\* its full content, a blank line.
C12_Section(path) ==
    <<"=== File: ", path[Len(path)], " ===\n\n">> \o FileBody(path) \o <<"\n\n">>

\* The sections of the first n paths of the call, in the caller's order.
RECURSIVE C12_Sections(_)
C12_Sections(n) ==
    IF n = 0 THEN <<>> ELSE C12_Sections(n - 1) \o C12_Section(call.arg[n])

\* C12: for every list of paths passed to the context formatter: if all
\* files are readable the result is the fixed header followed, for each path
\* in the caller's order, by one banner naming the file's base name, the
\* file's full content and a blank-line separator (one banner per entry,
\* duplicates included); if any file is unreadable the result is an error
\* for the first unreadable path in list order and no partial text.
C12_FormatFileContext ==
    FormatReturned =>
        IF Unreadable = {}
        THEN /\ call.out.err = Nil
             /\ call.out.text = <<"Context Files:\n\n">> \o C12_Sections(Len(call.arg))
             /\ Cardinality({i \in 1..Len(call.out.text) :
                                call.out.text[i] = "=== File: "}) = Len(call.arg)
        ELSE /\ IsErr(call.out.err)
             /\ call.out.err.detail = call.arg[SetMin(Unreadable)]
             /\ call.out.text = Empty

\* The formatter was given the same readable file twice, in a directory, and
\* returned a text.
C12_Witness ==
    /\ FormatReturned
    /\ call.arg = <<InboxFile, InboxFile>>
    /\ call.out.err = Nil
    /\ Len(call.out.text) > 1

\* The formatter was given a readable file and then an unreadable one, and
\* returned an error.
C12_WitnessUnreadable ==
    /\ FormatReturned
    /\ Len(call.arg) >= 2
    /\ call.arg[1] = NotesTxt
    /\ call.arg[2] = LockedFile
    /\ IsErr(call.out.err)

\* ------------------------------------------------- the local-process response

\* C13: whenever the local-process execute returns without an error, the
\* response text it returns is non-empty; a subprocess that exits zero with
\* no usable output (white space only included, which is trimmed from the
\* result) yields the EmptyResponse error, and an empty response is never
\* displayed as a success.
C13_SuccessIsNonEmpty ==
    proc.variant = "ExecutePrompt" =>
        /\ clientRet.err = Nil => clientRet.resp # <<>>
        /\ (proc.waited /\ proc.exit = 0
                /\ \A i \in 1..Len(proc.stdout) : IsSpace(proc.stdout[i])) =>
               clientRet.err.kind = "EmptyResponse"
        /\ Has(trace, "Display") => result # <<>>
====
